---------------------------- MODULE Spec2Model ----------------------------
(***************************************************************************)
(* A model of the POET benchmark: the configuration and score aggregation  *)
(* of POETBenchmark (src/poet_benchmark.py), the KnowledgeBase of          *)
(* src/utils/strategic_evaluator.py, the EfficiencyEvaluator of            *)
(* src/utils/efficiency_evaluator_clean.py and the thread-pool batch of    *)
(* POETBenchmark.evaluate_batch.                                           *)
(*                                                                         *)
(* Scores and weights are integers: a weight w is held as 100*w (percent), *)
(* a dimension score s in [0,1] as 100*s, an overall score as 10000*s.     *)
(***************************************************************************)
EXTENDS Integers, Sequences, FiniteSets, TLC

VARIABLES
  \* POETBenchmark.__init__ / calculate_poet_score
  benchmark,        \* "absent" | "constructed"
  config,           \* self.config["poet_weights"]: weight key -> percent
  poet,             \* the last calculate_poet_score call, or NoCall
  \* KnowledgeBase
  knowledge_units,  \* self.knowledge_units: unit id -> KnowledgeUnit
  domain_index,     \* self.domain_index: domain -> list of unit ids
  tag_index,        \* self.tag_index: tag -> list of unit ids
  kb_file,          \* the snapshot file at kb_path
  fresh,            \* a second KnowledgeBase constructed from kb_file
  found,            \* the last find_relevant_knowledge call
  kb_last,          \* the last mutating KnowledgeBase call and the store before it
  \* the shared EfficiencyEvaluator and the batch of evaluate_batch
  evaluator,        \* self.efficiency_evaluator
  task,             \* per submitted task: position in evaluate_single_task and its locals
  results,          \* the results list of evaluate_batch
  logged,           \* task ids logged by the except branch of evaluate_batch
  completed,        \* the completed counter of evaluate_batch
  batch,            \* "absent" | "running" | "returned"
  kb_initial,       \* the ids the store held when the batch started
  output,           \* what evaluate_batch returned and save_results wrote, or NoOutput
  \* a component driven one call at a time
  call              \* the last such call, its arguments and its outcome, or NoCall

cfgVars == <<benchmark, config, poet>>
kbVars == <<knowledge_units, domain_index, tag_index, kb_file, fresh, found, kb_last>>
batchVars == <<evaluator, task, results, logged, completed, batch, output, kb_initial>>
vars == <<benchmark, config, poet, knowledge_units, domain_index, tag_index, kb_file,
          fresh, found, kb_last, evaluator, task, results, logged, completed, batch,
          output, kb_initial, call>>

None == "None"
NoOp == [op |-> "none"]
NotLoaded == [loaded |-> FALSE]

(***************************************************************************)
(* Configuration: POETBenchmark._load_config and _deep_update              *)
(***************************************************************************)
WeightKeys == {"efficiency_value", "quality_value", "strategic_value"}

\* default_config["poet_weights"], in percent
DefaultPoetWeights ==
  [k \in WeightKeys |->
     CASE k = "efficiency_value" -> 30
       [] k = "quality_value" -> 50
       [] k = "strategic_value" -> 20]

\* The weights a user file may give for a key, in percent.
UserWeightValues == {10, 20, 50}

\* The "poet_weights" object of a user configuration file: any subset of the keys.
UserPoetWeights ==
  UNION {[ks -> UserWeightValues] : ks \in SUBSET WeightKeys}

\* _deep_update on the poet_weights dictionaries: a key of the update replaces the
\* base's value, every other key of the base is kept.
DeepUpdate(base, update) ==
  [k \in DOMAIN base |-> IF k \in DOMAIN update THEN update[k] ELSE base[k]]

\* _load_config: the defaults, deep-updated with the user file when it exists and
\* can be read; an unreadable file is logged and the defaults are returned.
LoadConfig(readable, user) ==
  IF readable THEN DeepUpdate(DefaultPoetWeights, user) ELSE DefaultPoetWeights

WeightSum(w) == w["efficiency_value"] + w["quality_value"] + w["strategic_value"]

\* POETBenchmark.__init__: the configuration is loaded and kept, with no check.
Construct(readable, user) ==
  /\ benchmark = "absent"
  /\ config' = LoadConfig(readable, user)
  /\ benchmark' = "constructed"
  /\ UNCHANGED poet

(***************************************************************************)
(* ScoreAggregator: POETBenchmark.calculate_poet_score                     *)
(***************************************************************************)
NoCall == [called |-> FALSE]

\* before POETBenchmark is constructed
InitConfig ==
  /\ benchmark = "absent"
  /\ config = DefaultPoetWeights
  /\ poet = NoCall
  /\ call = NoCall

\* A dimension score in [0,1], as a percentage.
DimensionScores == {0, 50, 100}

\* poet_score of calculate_poet_score, scaled by 10000.
PoetScore(w, e, q, s) ==
  e * w["efficiency_value"] + q * w["quality_value"] + s * w["strategic_value"]

CalculatePoetScore(e, q, s) ==
  /\ benchmark = "constructed"
  /\ poet' = [called |-> TRUE,
              efficiency_value |-> e, quality_value |-> q, strategic_value |-> s,
              poet_score |-> PoetScore(config, e, q, s)]
  /\ UNCHANGED <<benchmark, config>>

(***************************************************************************)
(* Text: a string is a sequence of characters                              *)
(***************************************************************************)
\* str.lower() on one character
LowerChar(ch) == CASE ch = "A" -> "a" [] ch = "B" -> "b" [] OTHER -> ch

\* str.lower()
Lower(str) == [i \in 1..Len(str) |-> LowerChar(str[i])]

\* `needle in haystack` on strings
Contains(haystack, needle) ==
  \E i \in 0..(Len(haystack) - Len(needle)) :
     \A j \in 1..Len(needle) : haystack[i + j] = needle[j]

\* The texts a knowledge unit may hold.
ContentPool == {<<"a">>, <<"A", " ", "b">>}

\* hashlib.md5(content.encode()).hexdigest()[:8]: a digest of the content; distinct
\* texts of ContentPool have distinct digests.
ContentHash(content) == <<"md5", Len(content), Lower(content) = content>>

\* unit_id = f"{task_id}_{i}_{content_hash}"
UnitId(task_id, i, content) == <<task_id, i, ContentHash(content)>>

\* datetime.isoformat() and datetime.fromisoformat(): a time is a clock reading,
\* its ISO text the pair of its date and time parts.
IsoFormat(t) == <<"iso", t \div 10, t % 10>>
FromIsoFormat(txt) == txt[2] * 10 + txt[3]

(***************************************************************************)
(* KnowledgeBase (src/utils/strategic_evaluator.py)                        *)
(*                                                                         *)
(* knowledge_units is a Python dict: an insertion-ordered map, held as the *)
(* sequence of its values in insertion order, ids distinct.  The two       *)
(* indexes are defaultdict(list): a list of ids per key, empty by default. *)
(***************************************************************************)
Domains == {"general", "legal"}
Tags == {"x", "y"}
TagLists == {<<>>, <<"x", "y">>}

Ids(units) == {units[i].id : i \in 1..Len(units)}
Position(units, id) == CHOOSE i \in 1..Len(units) : units[i].id = id
Unit(units, id) == units[Position(units, id)]
ListSet(list) == {list[i] : i \in 1..Len(list)}
Count(list, x) == Cardinality({i \in 1..Len(list) : list[i] = x})

\* KnowledgeBase.__init__ before load_knowledge_base: the empty store
EmptyStore ==
  [units |-> <<>>, dindex |-> [d \in Domains |-> <<>>], tindex |-> [t \in Tags |-> <<>>]]

\* a dict in which setting a new key discards the keys it had
DictSetForgetful(units, unit) ==
  IF unit.id \in Ids(units)
  THEN [units EXCEPT ![Position(units, unit.id)] = unit]
  ELSE <<unit>>

\* self.knowledge_units[unit.id] = unit
DictSet(units, unit) ==
  IF unit.id \in Ids(units)
  THEN [units EXCEPT ![Position(units, unit.id)] = unit]
  ELSE Append(units, unit)

\* for tag in unit.tags: self.tag_index[tag].append(unit.id)
RECURSIVE AppendTags(_, _, _)
AppendTags(tindex, tags, id) ==
  IF tags = <<>> THEN tindex
  ELSE AppendTags([tindex EXCEPT ![Head(tags)] = Append(@, id)], Tail(tags), id)

\* add_knowledge_unit, without the save: the in-memory update
AddUnit(kb, unit) ==
  [units |-> DictSet(kb.units, unit),
   dindex |-> [kb.dindex EXCEPT ![unit.domain] = Append(@, unit.id)],
   tindex |-> AppendTags(kb.tindex, unit.tags, unit.id)]

\* the unit_data dictionary save_knowledge_base writes for one unit
UnitData(unit) ==
  [id |-> unit.id, content |-> unit.content, domain |-> unit.domain,
   source_task_id |-> unit.source_task_id,
   creation_time |-> IsoFormat(unit.creation_time),
   usage_count |-> unit.usage_count, quality_score |-> unit.quality_score,
   tags |-> unit.tags]

\* the keys load_knowledge_base reads with unit_data[...]; the other three are read
\* with unit_data.get(key, default)
RequiredKeys == {"id", "content", "domain", "source_task_id", "creation_time"}

\* building the KnowledgeUnit from this unit_data raises no KeyError
WellFormed(data) == RequiredKeys \subseteq DOMAIN data

\* the KnowledgeUnit load_knowledge_base builds from one unit_data
UnitOfData(data) ==
  [id |-> data.id, content |-> data.content, domain |-> data.domain,
   source_task_id |-> data.source_task_id,
   creation_time |-> FromIsoFormat(data.creation_time),
   usage_count |-> IF "usage_count" \in DOMAIN data THEN data.usage_count ELSE 0,
   quality_score |-> IF "quality_score" \in DOMAIN data THEN data.quality_score ELSE 0,
   tags |-> IF "tags" \in DOMAIN data THEN data.tags ELSE <<>>]

\* data['knowledge_units'] of save_knowledge_base: every unit, in dict order
Snapshot(units) == [i \in 1..Len(units) |-> UnitData(units[i])]

MissingFile == [exists |-> FALSE, knowledge_units |-> <<>>]
WrittenFile(units) == [exists |-> TRUE, knowledge_units |-> Snapshot(units)]
\* a file json.load does not take
UnreadableFile == [exists |-> TRUE]

\* load_knowledge_base into a new KnowledgeBase: each unit_data of the file is
\* added in file order with save=False.  The try/except is around the whole loop:
\* an entry that makes the construction raise ends the loop, and what was added
\* before it stays.
RECURSIVE LoadUnits(_, _)
LoadUnits(kb, data) ==
  IF data = <<>> THEN kb
  ELSE IF WellFormed(Head(data))
       THEN LoadUnits(AddUnit(kb, UnitOfData(Head(data))), Tail(data))
       ELSE kb

\* a missing file, and a file json.load raises on, leave the store empty
LoadKnowledgeBase(file) ==
  IF file.exists /\ "knowledge_units" \in DOMAIN file
  THEN LoadUnits(EmptyStore, file.knowledge_units)
  ELSE EmptyStore

\* tag_ids of find_relevant_knowledge: the union of the tag index over the tags
TagIds(kb, tags) == UNION {ListSet(kb.tindex[t]) : t \in ListSet(tags)}

\* keyword_ids of find_relevant_knowledge: a scan of every unit of the store
KeywordIds(kb, keywords) ==
  {kb.units[i].id : i \in {j \in 1..Len(kb.units) :
      \E k \in keywords : Contains(Lower(kb.units[j].content), Lower(k))}}

\* candidate_ids of find_relevant_knowledge after the domain, tag and keyword steps;
\* tags = <<>> and keywords = {} stand for None or an empty list (both falsy).
CandidateIds(kb, domain, tags, keywords) ==
  LET byDomain == ListSet(kb.dindex[domain])
      byTag == IF tags # <<>>
               THEN (IF byDomain # {} THEN byDomain \cap TagIds(kb, tags)
                                      ELSE TagIds(kb, tags))
               ELSE byDomain
      byKeyword == IF keywords # {}
                   THEN (IF byTag # {} THEN byTag \cap KeywordIds(kb, keywords)
                                       ELSE KeywordIds(kb, keywords))
                   ELSE byTag
  IN {id \in byKeyword : id \in Ids(kb.units)}

\* The lists find_relevant_knowledge may return: the candidates, each once, in the
\* order of a stable sort by descending quality_score of the set's iteration order
\* (which Python leaves open).
RelevantLists(kb, domain, tags, keywords) ==
  LET ids == CandidateIds(kb, domain, tags, keywords)
      n == Cardinality(ids)
  IN {r \in [1..n -> ids] :
        /\ \A i, j \in 1..n : i # j => r[i] # r[j]
        /\ \A i \in 1..(n - 1) :
             Unit(kb.units, r[i]).quality_score >= Unit(kb.units, r[i + 1]).quality_score}

\* a usage update that counts a use for every unit of the store
BumpUsageOfAll(units, id) ==
  [i \in 1..Len(units) |-> [units[i] EXCEPT !.usage_count = @ + 1]]

\* update_knowledge_usage, without the save
BumpUsage(units, id) ==
  IF id \in Ids(units)
  THEN [units EXCEPT ![Position(units, id)].usage_count = @ + 1]
  ELSE units

(***************************************************************************)
(* The KnowledgeBase driven one call at a time                             *)
(***************************************************************************)
MaxAdds == 2
MaxUsage == 1

Store == [units |-> knowledge_units, dindex |-> domain_index, tindex |-> tag_index]

\* The units a caller may hand to add_knowledge_unit: the id is the one
\* extract_knowledge_units derives; usage_count starts at 0.
SourceTaskIds == {"t1"}
QualityScores == {0, 4}
CreationTimes == {12}
CallerUnits ==
  {[id |-> UnitId(t, 0, c), content |-> c, domain |-> d, source_task_id |-> t,
    creation_time |-> ct, usage_count |-> 0, quality_score |-> q, tags |-> tg] :
     t \in SourceTaskIds, c \in ContentPool, d \in Domains, ct \in CreationTimes,
     q \in QualityScores, tg \in TagLists}
CallerIds == {UnitId(t, 0, c) : t \in SourceTaskIds, c \in ContentPool}

\* The arguments a caller may hand to find_relevant_knowledge.
QueryTags == {<<>>, <<"x">>}
QueryKeywords == {{}, {<<"B">>}}

\* The number of add_knowledge_unit calls so far: each appends one domain-index entry.
Adds == Len(domain_index["general"]) + Len(domain_index["legal"])

\* add_knowledge_unit(unit), save=True: the in-memory update, then save_knowledge_base
KBAddUnit(unit) ==
  /\ LET kb == AddUnit(Store, unit)
     IN /\ knowledge_units' = kb.units
        /\ domain_index' = kb.dindex
        /\ tag_index' = kb.tindex
        /\ kb_file' = WrittenFile(kb.units)
  /\ kb_last' = [op |-> "add", id |-> unit.id, unit |-> unit, before |-> Store]
  /\ fresh' = NotLoaded
  /\ found' = NoCall
  /\ call' = NoCall

\* a caller that adds at most MaxAdds units
KBAdd(unit) == Adds < MaxAdds /\ KBAddUnit(unit)

\* a caller that adds one unit more, so that a domain can hold a unit next to the
\* index entry an overwritten unit left behind
KBAddForUse(unit) == Adds <= MaxAdds /\ KBAddUnit(unit)

\* update_knowledge_usage(unit_id): the count is raised and the store saved when the
\* id is present, and nothing happens otherwise
KBUpdateUsage(id) ==
  /\ id \in Ids(knowledge_units) => Unit(knowledge_units, id).usage_count < MaxUsage
  /\ knowledge_units' = BumpUsage(knowledge_units, id)
  /\ kb_file' = IF id \in Ids(knowledge_units)
                THEN WrittenFile(knowledge_units') ELSE kb_file
  /\ kb_last' = [op |-> "usage", id |-> id, unit |-> None, before |-> Store,
                 file |-> kb_file]
  /\ fresh' = NotLoaded
  /\ found' = NoCall
  /\ call' = NoCall
  /\ UNCHANGED <<domain_index, tag_index>>

\* find_relevant_knowledge(domain, tags, content_keywords)
KBFind(domain, tags, keywords) ==
  /\ \E r \in RelevantLists(Store, domain, tags, keywords) :
        found' = [called |-> TRUE, domain |-> domain, tags |-> tags,
                  keywords |-> keywords, result |-> r]
  /\ kb_last' = NoOp
  /\ fresh' = NotLoaded
  /\ call' = NoCall
  /\ UNCHANGED <<knowledge_units, domain_index, tag_index, kb_file>>

\* KnowledgeBase(kb_path) constructed again on the snapshot the store wrote
KBReload ==
  /\ fresh' = [loaded |-> TRUE, store |-> LoadKnowledgeBase(kb_file)]
  /\ kb_last' = NoOp
  /\ found' = NoCall
  /\ call' = NoCall
  /\ UNCHANGED <<knowledge_units, domain_index, tag_index, kb_file>>

(***************************************************************************)
(* EfficiencyEvaluator (src/utils/efficiency_evaluator_clean.py), the one  *)
(* instance POETBenchmark.__init__ builds and every worker thread uses     *)
(***************************************************************************)
\* default_config: default_expert_time, default_expert_rate and the per-domain tables
DefaultExpertTime == 2
DefaultExpertRate == 100
DomainExpertTimes == [d \in Domains |-> IF d = "legal" THEN 4 ELSE 2]
DomainExpertRates == [d \in Domains |-> IF d = "legal" THEN 200 ELSE 100]

\* EfficiencyEvaluator.__init__ as called by POETBenchmark.__init__
NewEvaluator ==
  [expert_time_hours |-> DefaultExpertTime, expert_hourly_rate_usd |-> DefaultExpertRate,
   current_task_id |-> None, start_time |-> None,
   token_input |-> 0, token_output |-> 0, error_count |-> 0]

\* a start_task that leaves the counters of the task before as they are
StartTaskKeepingCounters(ev, task_id) ==
  [ev EXCEPT !.current_task_id = task_id, !.start_time = task_id]

\* start_task: a time reading is tagged with the task whose call took it
StartTask(ev, task_id) ==
  [ev EXCEPT !.current_task_id = task_id, !.start_time = task_id,
             !.token_input = 0, !.token_output = 0, !.error_count = 0]

\* add_token_usage
AddTokenUsage(ev, input_tokens, output_tokens) ==
  [ev EXCEPT !.token_input = @ + input_tokens, !.token_output = @ + output_tokens]

\* add_error
AddError(ev) == [ev EXCEPT !.error_count = @ + 1]

\* the EfficiencyMetrics end_task builds from the evaluator's fields
MetricsOf(ev) ==
  [task_id |-> ev.current_task_id, start_time |-> ev.start_time,
   input_tokens |-> ev.token_input, output_tokens |-> ev.token_output,
   expert_time_hours |-> ev.expert_time_hours,
   expert_hourly_rate_usd |-> ev.expert_hourly_rate_usd,
   error_count |-> ev.error_count]

\* the reset at the end of end_task
ResetTask(ev) == [ev EXCEPT !.current_task_id = None, !.start_time = None]

(***************************************************************************)
(* StrategicEvaluator.calculate_knowledge_consistency                      *)
(* (src/utils/strategic_evaluator.py), one call at a time                  *)
(*                                                                         *)
(* A float score in [0,1] is held as a multiple of 1/One; the word sets of *)
(* ContentPool have at most two words and a call takes at most two new     *)
(* units, so every quotient below is exact.                                *)
(***************************************************************************)
One == 60

\* set(content.lower().split()): the maximal runs of non-blank characters
Words(content) ==
  LET str == Lower(content)
  IN {SubSeq(str, i, j) : <<i, j>> \in
        {p \in (1..Len(str)) \X (1..Len(str)) :
           /\ p[1] <= p[2]
           /\ \A k \in p[1]..p[2] : str[k] # " "
           /\ p[1] = 1 \/ str[p[1] - 1] = " "
           /\ p[2] = Len(str) \/ str[p[2] + 1] = " "}}

\* similarity of two contents: |intersection| / |union| of their word sets, and
\* nothing (max_similarity keeps its 0.0) when one of them has no word
Similarity(new_content, existing_content) ==
  LET new_words == Words(new_content)
      existing_words == Words(existing_content)
  IN IF new_words # {} /\ existing_words # {}
     THEN (Cardinality(new_words \cap existing_words) * One)
             \div Cardinality(new_words \cup existing_words)
     ELSE 0

\* max_similarity of one new unit over the existing units
MaxSimilarity(new_unit, existing) ==
  LET sims == {Similarity(new_unit.content, e.content) : e \in existing} \cup {0}
  IN CHOOSE m \in sims : \A x \in sims : x <= m

RECURSIVE SumOfScores(_)
SumOfScores(scores) ==
  IF scores = <<>> THEN 0 ELSE Head(scores) + SumOfScores(Tail(scores))

\* calculate_knowledge_consistency(new_units, domain); existing_units is what
\* find_relevant_knowledge(domain) returns, fewer than ten units here
KnowledgeConsistency(kb, new_units, domain) ==
  LET existing == {Unit(kb.units, id) : id \in CandidateIds(kb, domain, <<>>, {})}
  IN IF new_units = <<>> THEN One
     ELSE IF existing = {} THEN One
     ELSE SumOfScores([i \in 1..Len(new_units) |-> MaxSimilarity(new_units[i], existing)])
             \div Len(new_units)

RECURSIVE AddUnits(_, _)
\* for unit in knowledge_units: add_knowledge_unit(unit), the in-memory updates
AddUnits(kb, units) ==
  IF units = <<>> THEN kb ELSE AddUnits(AddUnit(kb, Head(units)), Tail(units))

(***************************************************************************)
(* POETBenchmark.evaluate_batch: a ThreadPoolExecutor of MaxWorkers        *)
(* threads runs evaluate_single_task on every task; the calling thread     *)
(* collects the futures as they complete.  Statements that touch only a    *)
(* task's locals are joined to the shared-state step before them.          *)
(***************************************************************************)
\* tasks in the batch, threads in the pool, units extracted in the batch in all
NumTasks == 3
MaxWorkers == 2
MaxUnits == 2

TaskIndexes == 1..NumTasks

\* The task records of the input file: ids are distinct, domains alternate, and
\* prompts and articles have different lengths.
TaskIdList == <<"t1", "t2", "t3", "t4", "t5">>
TaskId(i) == TaskIdList[i]
TaskDomain(i) == IF i % 2 = 1 THEN "general" ELSE "legal"
PromptWords(i) == 10 * i
ArticleWords(i) == 20

\* int(len(text.split()) * 1.3)
EstimatedTokens(words) == (words * 13) \div 10

\* What the text-generation service returns for the extraction prompt: the j-th unit
\* of a response has a fixed text and tag list; the number of units is open.
ExtractedContent(j) == IF j = 1 THEN <<"a">> ELSE <<"A", " ", "b">>
ExtractedTags(j) == IF j = 1 THEN <<>> ELSE <<"x", "y">>

\* extract_knowledge_units: the units built from a response of n units
ExtractKnowledgeUnits(task_id, domain, n) ==
  [j \in 1..n |->
     [id |-> UnitId(task_id, j - 1, ExtractedContent(j)),
      content |-> ExtractedContent(j), domain |-> domain, source_task_id |-> task_id,
      creation_time |-> 12, usage_count |-> 0, quality_score |-> 0,
      tags |-> ExtractedTags(j)]]

\* The snapshot files the benchmark may start from: none, or the file an earlier
\* run over the same input left behind.
InitialFiles ==
  {MissingFile,
   WrittenFile(ExtractKnowledgeUnits(TaskId(1), TaskDomain(1), 1))}

\* evaluate_complex_task_capability and evaluate_knowledge_capabilities
\* (src/utils/strategic_evaluator.py).  A score of 1.0 .. 5.0 is held in tenths.
\* What ai_client.generate does: it raises, or returns a text with no {...} in it,
\* or a text whose {...} is not JSON, or a text whose {...} is a JSON object; a value
\* of the object is a number or something float() does not take.
CapabilityKeys ==
  {"multi_step_reasoning_score", "domain_expertise_score",
   "synthesis_capability_score", "independence_score"}
KnowledgeKeys ==
  {"knowledge_extraction_score", "knowledge_organization_score",
   "knowledge_reuse_potential", "knowledge_quality_score"}

ServiceError == [kind |-> "exception"]
NoPayload == [kind |-> "text"]
InvalidPayload == [kind |-> "invalid"]
Payload(object) == [kind |-> "json", object |-> object]
Number(tenths) == [numeric |-> TRUE, tenths |-> tenths]
NotANumber == [numeric |-> FALSE]

\* the neutral default 3.0
DefaultScore == 30

\* an assessment that leaves no sub-score in place when the response is unusable
SubScoresOrNothing(response, keys) ==
  IF response.kind = "json" /\ \A k \in DOMAIN response.object : response.object[k].numeric
  THEN [k \in keys |-> IF k \in DOMAIN response.object
                       THEN response.object[k].tenths ELSE DefaultScore]
  ELSE [k \in keys |-> 0]

\* The dictionary an assessment returns: float(result.get(key, 3.0)) for each key
\* when the response holds a JSON object, and the four defaults when generate,
\* json.loads or float raised or no {...} was found.
SubScores(response, keys) ==
  IF response.kind = "json" /\ \A k \in DOMAIN response.object : response.object[k].numeric
  THEN [k \in keys |-> IF k \in DOMAIN response.object
                       THEN response.object[k].tenths ELSE DefaultScore]
  ELSE [k \in keys |-> DefaultScore]

\* What the text-generation service answers to the two assessment prompts of task i:
\* the answers differ from task to task and are fixed for a task.
CapabilityResponse(i) ==
  CASE i % 4 = 1 -> Payload([k \in CapabilityKeys |-> Number(40)])
    [] i % 4 = 2 -> ServiceError
    [] i % 4 = 3 -> Payload([k \in CapabilityKeys \ {"independence_score"} |-> Number(50)])
    [] OTHER -> Payload([k \in CapabilityKeys |->
                           IF k = "independence_score" THEN NotANumber ELSE Number(40)])
KnowledgeResponse(i) ==
  CASE i % 4 = 1 -> Payload([k \in KnowledgeKeys |-> Number(50)])
    [] i % 4 = 2 -> NoPayload
    [] i % 4 = 3 -> InvalidPayload
    [] OTHER -> Payload([k \in {"knowledge_quality_score"} |-> Number(20)])

\* the sub-scores evaluate_strategic_value holds after its two assessments
StrategicScores(i) ==
  [assessed |-> TRUE,
   complex_task_scores |-> SubScores(CapabilityResponse(i), CapabilityKeys),
   knowledge_scores |-> SubScores(KnowledgeResponse(i), KnowledgeKeys)]

NotAssessed == [assessed |-> FALSE]

NoMetrics == [task_id |-> None]

QueuedTask ==
  [pc |-> "queued", error |-> None, efficiency_metrics |-> NoMetrics,
   strategic_scores |-> NotAssessed,
   knowledge_units |-> <<>>, added |-> 0, data |-> <<>>, reused_count |-> 0,
   knowledge_consistency |-> One]

RECURSIVE ExtractedUpTo(_)
\* the units extracted so far by tasks 1..i
ExtractedUpTo(i) ==
  IF i = 0 THEN 0 ELSE Len(task[i].knowledge_units) + ExtractedUpTo(i - 1)

\* how many units one more extraction may yield: the batch extracts at most
\* MaxUnits units in all
ExtractionCounts == 0..(MaxUnits - ExtractedUpTo(NumTasks))

Running == {i \in TaskIndexes : task[i].pc \notin {"queued", "done", "raised"}}

\* The externally supplied quality tables evaluate_batch loads: task id -> scores.
\* A race score of 0.0 .. 5.0 is held in tenths, a citation accuracy in percent.
\* The first task is in both tables, the second in the race table only, no other
\* task is in either.
RaceResults ==
  [id \in {TaskId(1), TaskId(2)} |-> [race_score |-> IF id = TaskId(1) THEN 40 ELSE 25]]
FactResults ==
  [id \in {TaskId(1)} |-> [citation_accuracy |-> 50, effective_citations |-> 3]]

\* evaluate_single_task, lines 365-376: the quality inputs of a task, 0 when the
\* task id is in neither table
QualityInputs(task_id) ==
  [race_score |-> IF task_id \in DOMAIN RaceResults
                  THEN RaceResults[task_id].race_score ELSE 0,
   fact_accuracy |-> IF task_id \in DOMAIN FactResults
                     THEN FactResults[task_id].citation_accuracy ELSE 0,
   fact_citations |-> IF task_id \in DOMAIN FactResults
                      THEN FactResults[task_id].effective_citations ELSE 0]

\* min(1.0, max(0.0, x)) in percent
Clamp(x) == IF x < 0 THEN 0 ELSE IF x > 100 THEN 100 ELSE x

\* default_config: quality_value_weights, efficiency_weights and strategic_weights,
\* in percent
QualityValueWeights == [race_score |-> 70, fact_score |-> 30]
EfficiencyWeights == [time_weight |-> 40, cost_weight |-> 30, automation_weight |-> 30]
StrategicWeights == [task_capability |-> 60, knowledge_capability |-> 40]

\* calculate_quality_score, in percent: race_score / 5.0 of a score in tenths is
\* twice the score in percent
QualityScoreUnder(weights, race_score, fact_accuracy) ==
  (Clamp(race_score * 2) * weights.race_score
     + Clamp(fact_accuracy) * weights.fact_score) \div 100

\* under the default configuration
CalculateQualityScore(race_score, fact_accuracy) ==
  QualityScoreUnder(QualityValueWeights, race_score, fact_accuracy)

\* calculate_strategic_score, in percent: the sum of four scores in tenths over
\* 20.0 is half the sum in percent
StrategicScoreUnder(weights, scores) ==
  LET c == scores.complex_task_scores
      k == scores.knowledge_scores
      task_capability ==
        (c["multi_step_reasoning_score"] + c["domain_expertise_score"]
           + c["synthesis_capability_score"] + c["independence_score"]) \div 2
      knowledge_capability ==
        (k["knowledge_extraction_score"] + k["knowledge_organization_score"]
           + k["knowledge_reuse_potential"] + k["knowledge_quality_score"]) \div 2
  IN Clamp((task_capability * weights.task_capability
              + knowledge_capability * weights.knowledge_capability) \div 100)

CalculateStrategicScore(scores) == StrategicScoreUnder(StrategicWeights, scores)

\* completion_time_seconds / 3600 of end_task against the expert's hours, to the
\* whole percent: end_task follows start_task with no work between them
CompletionTimePercent == 0

\* _calculate_cost in whole cents: 0.0015 and 0.006 dollars for 1000 tokens
EstimatedCostCents(metrics) ==
  (metrics.input_tokens * 15 + metrics.output_tokens * 60) \div 100000

\* _calculate_cost_saving in cents
CostSavingCents(metrics) ==
  LET expert_cost == metrics.expert_time_hours * metrics.expert_hourly_rate_usd * 100
      saving == expert_cost - EstimatedCostCents(metrics)
  IN IF saving < 0 THEN 0 ELSE saving

\* calculate_efficiency_score, in percent
EfficiencyScoreUnder(weights, metrics) ==
  LET time_efficiency ==
        IF metrics.expert_time_hours > 0 THEN Clamp(100 - CompletionTimePercent) ELSE 50
      expert_cost == metrics.expert_time_hours * metrics.expert_hourly_rate_usd * 100
      cost_efficiency ==
        IF CostSavingCents(metrics) > 0
        THEN Clamp((CostSavingCents(metrics) * 100) \div expert_cost) ELSE 0
      automation_efficiency ==
        IF metrics.expert_time_hours <= 0 THEN 100 ELSE Clamp(100 - CompletionTimePercent)
  IN Clamp((time_efficiency * weights.time_weight
              + cost_efficiency * weights.cost_weight
              + automation_efficiency * weights.automation_weight) \div 100)

CalculateEfficiencyScore(metrics) == EfficiencyScoreUnder(EfficiencyWeights, metrics)

\* poet_value_breakdown of calculate_poet_score for a task's locals
ValueBreakdown(i, locals) ==
  [efficiency_value |-> CalculateEfficiencyScore(locals.efficiency_metrics),
   quality_value |-> CalculateQualityScore(QualityInputs(TaskId(i)).race_score,
                                           QualityInputs(TaskId(i)).fact_accuracy),
   strategic_value |-> CalculateStrategicScore(locals.strategic_scores)]

\* the POETMetrics evaluate_single_task returns, given the task's locals
CompositeResult(i, locals) ==
  [task_id |-> TaskId(i), domain |-> TaskDomain(i),
   efficiency_metrics |-> locals.efficiency_metrics,
   strategic_scores |-> locals.strategic_scores,
   created_knowledge_units |-> Len(locals.knowledge_units),
   reused_knowledge_units |-> locals.reused_count,
   knowledge_consistency_score |-> locals.knowledge_consistency,
   race_score |-> QualityInputs(TaskId(i)).race_score,
   fact_citation_accuracy |-> QualityInputs(TaskId(i)).fact_accuracy,
   fact_effective_citations |-> QualityInputs(TaskId(i)).fact_citations,
   poet_value_breakdown |-> ValueBreakdown(i, locals),
   overall_poet_score |->
     PoetScore(config, ValueBreakdown(i, locals).efficiency_value,
               ValueBreakdown(i, locals).quality_value,
               ValueBreakdown(i, locals).strategic_value)]

\* save_results: the detailed list holds asdict(result) and the summary list one
\* summary record for each result, both in the order of the results list
DetailedResults(list) == list
SummaryResults(list) ==
  [k \in 1..Len(list) |->
     [task_id |-> list[k].task_id, domain |-> list[k].domain,
      overall_poet_score |-> list[k].overall_poet_score,
      efficiency_score |-> list[k].poet_value_breakdown.efficiency_value,
      quality_score |-> list[k].poet_value_breakdown.quality_value,
      strategic_score |-> list[k].poet_value_breakdown.strategic_value,
      race_score |-> list[k].race_score,
      fact_accuracy |-> list[k].fact_citation_accuracy,
      knowledge_units_created |-> list[k].created_knowledge_units]]

NoOutput == [written |-> FALSE]

\* One turn of the as_completed loop of evaluate_batch, taken when the task's future
\* completes: the loop touches only results and completed, which no worker reads.
\* The result is appended.
CollectResult(i, locals) ==
  /\ completed' = completed + 1
  /\ results' = Append(results, CompositeResult(i, locals))
  /\ UNCHANGED logged

\* The turn of the as_completed loop for a future that raised: the exception is
\* caught and the task id logged.
CollectError(i) ==
  /\ completed' = completed + 1
  /\ logged' = Append(logged, TaskId(i))
  /\ UNCHANGED results

Raise(i, error) ==
  /\ task' = [task EXCEPT ![i].pc = "raised", ![i].error = error]
  /\ CollectError(i)

NotSettled == UNCHANGED <<results, logged, completed>>

\* A pool thread takes the next queued task and runs evaluate_single_task up to
\* start_task (lines 318-342): the expert parameters of the task's domain are
\* written to the evaluator and start_task is called; a record without "id" raises
\* KeyError at line 318.
Begin(i) ==
  /\ batch = "running"
  /\ task[i].pc = "queued"
  /\ \A j \in TaskIndexes : j < i => task[j].pc # "queued"
  /\ Cardinality(Running) < MaxWorkers
  /\ \/ /\ task' = [task EXCEPT ![i].pc = "usage"]
        /\ evaluator' =
             StartTask([evaluator EXCEPT
                          !.expert_time_hours = DomainExpertTimes[TaskDomain(i)],
                          !.expert_hourly_rate_usd = DomainExpertRates[TaskDomain(i)]],
                       TaskId(i))
        /\ NotSettled
     \/ /\ Raise(i, "KeyError")
        /\ UNCHANGED evaluator
  /\ UNCHANGED <<kbVars, batch, output, kb_initial>>

\* the token estimate and add_token_usage (lines 345-350); a prompt that is not a
\* string raises AttributeError at .split(), after start_task
DoAddTokenUsage(i) ==
  /\ task[i].pc = "usage"
  /\ \/ /\ evaluator' = AddTokenUsage(evaluator, EstimatedTokens(PromptWords(i)),
                                      EstimatedTokens(ArticleWords(i)))
        /\ task' = [task EXCEPT ![i].pc = "end"]
        /\ NotSettled
     \/ /\ Raise(i, "AttributeError")
        /\ UNCHANGED evaluator
  /\ UNCHANGED <<kbVars, batch, output, kb_initial>>

\* end_task, its guard: ValueError when no task is running
EndTaskCheck(i) ==
  /\ task[i].pc = "end"
  /\ IF evaluator.current_task_id = None
     THEN Raise(i, "ValueError")
     ELSE task' = [task EXCEPT ![i].pc = "end_build"] /\ NotSettled
  /\ UNCHANGED <<kbVars, evaluator, batch, output, kb_initial>>

\* end_task, its body: the elapsed time (TypeError when start_time is None), the
\* metrics and the reset; then the three text-generation calls of
\* evaluate_strategic_value, of which the extraction yields n units
EndTaskBuild(i, n) ==
  /\ task[i].pc = "end_build"
  /\ IF evaluator.start_time = None
     THEN /\ Raise(i, "TypeError")
          /\ UNCHANGED evaluator
     ELSE /\ task' = [task EXCEPT
                        ![i].pc = "consult",
                        ![i].efficiency_metrics = MetricsOf(evaluator),
                        ![i].strategic_scores = StrategicScores(i),
                        ![i].knowledge_units =
                            ExtractKnowledgeUnits(TaskId(i), TaskDomain(i), n)]
          /\ evaluator' = ResetTask(evaluator)
          /\ NotSettled
  /\ UNCHANGED <<kbVars, batch, output, kb_initial>>

\* calculate_knowledge_consistency and the reuse lookup, two calls of
\* find_relevant_knowledge(domain) with nothing between them:
\* reused_count = min(len(relevant_existing), 5).  With no unit to add the task goes
\* on to its scores and returns its POETMetrics.
\* reused_count = min(len(relevant_existing), 5)
ReusedCount(kb, domain) ==
  LET n == Cardinality(CandidateIds(kb, domain, <<>>, {}))
  IN IF n < 5 THEN n ELSE 5

\* the consistency and the reuse lookup done after the task's units were put in the
\* store
ConsultAfterAdding(i) ==
  /\ task[i].pc = "consult"
  /\ LET kb == AddUnits(Store, task[i].knowledge_units)
         locals == [task[i] EXCEPT
                      !.knowledge_consistency =
                          KnowledgeConsistency(kb, task[i].knowledge_units, TaskDomain(i)),
                      !.reused_count = ReusedCount(kb, TaskDomain(i))]
     IN /\ knowledge_units' = kb.units
        /\ domain_index' = kb.dindex
        /\ tag_index' = kb.tindex
        /\ IF task[i].knowledge_units = <<>>
           THEN /\ task' = [task EXCEPT ![i] = [locals EXCEPT !.pc = "done"]]
                /\ CollectResult(i, locals)
           ELSE /\ task' = [task EXCEPT ![i] = [locals EXCEPT !.pc = "add"]]
                /\ NotSettled
  /\ UNCHANGED <<kb_file, fresh, found, kb_last, evaluator, batch, output, kb_initial>>

\* evaluate_strategic_value, steps 4 and 5: calculate_knowledge_consistency and the
\* reuse lookup, both on the store as it is before the task's units are added
Consult(i) ==
  /\ task[i].pc = "consult"
  /\ LET locals == [task[i] EXCEPT
                      !.knowledge_consistency =
                          KnowledgeConsistency(Store, task[i].knowledge_units,
                                               TaskDomain(i)),
                      !.reused_count = ReusedCount(Store, TaskDomain(i))]
     IN IF task[i].knowledge_units = <<>>
        THEN /\ task' = [task EXCEPT ![i] = [locals EXCEPT !.pc = "done"]]
             /\ CollectResult(i, locals)
        ELSE /\ task' = [task EXCEPT ![i] = [locals EXCEPT !.pc = "add"]]
             /\ NotSettled
  /\ UNCHANGED <<kbVars, evaluator, batch, output, kb_initial>>

\* add_knowledge_unit on the next unit, its in-memory update: the unit is set in the
\* dict and its id appended to the index lists.  No other thread reads an index list
\* without reading the dict entry set before it, so the three writes are one step.
AddNext(i) ==
  /\ task[i].pc = "add"
  /\ LET unit == task[i].knowledge_units[task[i].added + 1]
         kb == AddUnit(Store, unit)
     IN /\ knowledge_units' = kb.units
        /\ domain_index' = kb.dindex
        /\ tag_index' = kb.tindex
        /\ task' = [task EXCEPT ![i].pc = "read", ![i].added = @ + 1]
  /\ NotSettled
  /\ UNCHANGED <<kb_file, fresh, found, kb_last, evaluator, batch, output, kb_initial>>

\* the task's next step once save_knowledge_base is over
AfterSave(i) ==
  IF task[i].added = Len(task[i].knowledge_units)
  THEN /\ task' = [task EXCEPT ![i].data = <<>>, ![i].pc = "done"]
       /\ CollectResult(i, task[i])
  ELSE /\ task' = [task EXCEPT ![i].data = <<>>, ![i].pc = "add"]
       /\ NotSettled

\* save_knowledge_base, the loop over knowledge_units.values() that fills data
SaveRead(i) ==
  /\ task[i].pc = "read"
  /\ task' = [task EXCEPT ![i].pc = "write", ![i].data = Snapshot(knowledge_units)]
  /\ NotSettled
  /\ UNCHANGED <<kbVars, evaluator, batch, output, kb_initial>>

\* save_knowledge_base, the loop cut short: another thread is setting a new key in
\* the dict while this one iterates over it, the iteration raises RuntimeError, the
\* except clause logs it and nothing is written
SaveAbort(i) ==
  /\ task[i].pc = "read"
  /\ \E j \in TaskIndexes \ {i} :
        /\ task[j].pc = "add"
        /\ task[j].knowledge_units[task[j].added + 1].id \notin Ids(knowledge_units)
  /\ AfterSave(i)
  /\ UNCHANGED <<kbVars, evaluator, batch, output, kb_initial>>

\* save_knowledge_base, open(kb_path, 'w') and json.dump: data is written over the
\* file; after the last unit the task goes on to its scores and returns its
\* POETMetrics
SaveWrite(i) ==
  /\ task[i].pc = "write"
  /\ kb_file' = [exists |-> TRUE, knowledge_units |-> task[i].data]
  /\ AfterSave(i)
  /\ UNCHANGED <<knowledge_units, domain_index, tag_index, fresh, found, kb_last,
                 evaluator, batch, output, kb_initial>>

\* the loop is over: save_results, generate_poet_report, return results
Return ==
  /\ batch = "running"
  /\ \A i \in TaskIndexes : task[i].pc \in {"done", "raised"}
  /\ batch' = "returned"
  /\ output' = [written |-> TRUE,
                returned |-> results,
                detailed |-> DetailedResults(results),
                summary |-> SummaryResults(results)]
  /\ UNCHANGED <<kbVars, evaluator, task, results, logged, completed, kb_initial>>

\* the benchmark constructed on one of the snapshot files, evaluate_batch entered
InitRun ==
  /\ \E file \in InitialFiles :
        /\ kb_file = file
        /\ knowledge_units = LoadKnowledgeBase(file).units
        /\ domain_index = LoadKnowledgeBase(file).dindex
        /\ tag_index = LoadKnowledgeBase(file).tindex
        /\ kb_initial = Ids(LoadKnowledgeBase(file).units)
  /\ fresh = NotLoaded
  /\ found = NoCall
  /\ kb_last = NoOp
  /\ evaluator = NewEvaluator
  /\ task = [i \in TaskIndexes |-> QueuedTask]
  /\ results = <<>>
  /\ logged = <<>>
  /\ completed = 0
  /\ batch = "running"
  /\ output = NoOutput

\* evaluate_single_task from its first line to the extraction (lines 318-363 and the
\* text-generation calls of evaluate_strategic_value) run by one thread with no other
\* thread in the evaluator meanwhile: start_task, add_token_usage and end_task follow
\* one another.  A record without "id" raises KeyError before the evaluator is
\* touched.
BeginAlone(i, n) ==
  /\ batch = "running"
  /\ task[i].pc = "queued"
  /\ \A j \in TaskIndexes : j < i => task[j].pc # "queued"
  /\ Cardinality(Running) < MaxWorkers
  /\ LET started == StartTask([evaluator EXCEPT
                          !.expert_time_hours = DomainExpertTimes[TaskDomain(i)],
                          !.expert_hourly_rate_usd = DomainExpertRates[TaskDomain(i)]],
                       TaskId(i))
         used == AddTokenUsage(started, EstimatedTokens(PromptWords(i)),
                               EstimatedTokens(ArticleWords(i)))
     IN \/ /\ task' = [task EXCEPT
                         ![i].pc = "consult",
                         ![i].efficiency_metrics = MetricsOf(used),
                         ![i].strategic_scores = StrategicScores(i),
                         ![i].knowledge_units =
                             ExtractKnowledgeUnits(TaskId(i), TaskDomain(i), n)]
           /\ evaluator' = ResetTask(used)
           /\ NotSettled
        \/ /\ n = 0
           /\ Raise(i, "KeyError")
           /\ UNCHANGED evaluator
  /\ UNCHANGED <<kbVars, batch, output, kb_initial>>

Next ==
  \/ \E i \in TaskIndexes : Begin(i) /\ UNCHANGED <<cfgVars, call>>
  \/ \E i \in TaskIndexes : DoAddTokenUsage(i) /\ UNCHANGED <<cfgVars, call>>
  \/ \E i \in TaskIndexes : EndTaskCheck(i) /\ UNCHANGED <<cfgVars, call>>
  \/ \E i \in TaskIndexes, n \in ExtractionCounts : EndTaskBuild(i, n) /\ UNCHANGED <<cfgVars, call>>
  \/ \E i \in TaskIndexes : Consult(i) /\ UNCHANGED <<cfgVars, call>>
  \/ \E i \in TaskIndexes : AddNext(i) /\ UNCHANGED <<cfgVars, call>>
  \/ \E i \in TaskIndexes : SaveRead(i) /\ UNCHANGED <<cfgVars, call>>
  \/ \E i \in TaskIndexes : SaveAbort(i) /\ UNCHANGED <<cfgVars, call>>
  \/ \E i \in TaskIndexes : SaveWrite(i) /\ UNCHANGED <<cfgVars, call>>
  \/ Return /\ UNCHANGED <<cfgVars, call>>

\* POETBenchmark constructed with the default weights, evaluate_batch entered
Init == InitConfig /\ InitRun

Spec == Init /\ [][Next]_vars

\* The store under concurrent evaluations: the efficiency phase of each task is one
\* step, the strategic phase and the store update are interleaved as in Spec.
NextStore ==
  \/ \E i \in TaskIndexes, n \in ExtractionCounts : BeginAlone(i, n) /\ UNCHANGED <<cfgVars, call>>
  \/ \E i \in TaskIndexes : Consult(i) /\ UNCHANGED <<cfgVars, call>>
  \/ \E i \in TaskIndexes : AddNext(i) /\ UNCHANGED <<cfgVars, call>>
  \/ \E i \in TaskIndexes : SaveRead(i) /\ UNCHANGED <<cfgVars, call>>
  \/ \E i \in TaskIndexes : SaveAbort(i) /\ UNCHANGED <<cfgVars, call>>
  \/ \E i \in TaskIndexes : SaveWrite(i) /\ UNCHANGED <<cfgVars, call>>
  \/ Return /\ UNCHANGED <<cfgVars, call>>

SpecStore == Init /\ [][NextStore]_vars

(***************************************************************************)
(* The batch, and the store after it, when the snapshot file cannot be     *)
(* written: open(self.kb_path, 'w') of save_knowledge_base raises          *)
(***************************************************************************)
\* a save whose failure reaches the caller of add_knowledge_unit
SaveFailRaising(i) ==
  /\ task[i].pc = "write"
  /\ task' = [task EXCEPT ![i].data = <<>>, ![i].pc = "raised", ![i].error = "OSError"]
  /\ CollectError(i)
  /\ UNCHANGED <<kbVars, evaluator, batch, output, kb_initial>>

\* save_knowledge_base, open(kb_path, 'w') raises: the except clause logs the
\* error, nothing is written and add_knowledge_unit returns
SaveFail(i) ==
  /\ task[i].pc = "write"
  /\ AfterSave(i)
  /\ UNCHANGED <<kbVars, evaluator, batch, output, kb_initial>>

\* update_knowledge_usage(unit_id), the first call on the store once the batch has
\* returned: the count is raised in memory and the save fails as above
KBUpdateUsageUnsaved(id) ==
  /\ batch = "returned"
  /\ kb_last = NoOp /\ found = NoCall
  /\ id \in Ids(knowledge_units) => Unit(knowledge_units, id).usage_count < MaxUsage
  /\ knowledge_units' = BumpUsage(knowledge_units, id)
  /\ kb_last' = [op |-> "usage", id |-> id, unit |-> None, before |-> Store,
                 file |-> kb_file]
  /\ fresh' = NotLoaded
  /\ found' = NoCall
  /\ call' = NoCall
  /\ UNCHANGED <<domain_index, tag_index, kb_file>>

NextUnwritable ==
  \/ \E i \in TaskIndexes, n \in ExtractionCounts : BeginAlone(i, n) /\ UNCHANGED <<cfgVars, call>>
  \/ \E i \in TaskIndexes : Consult(i) /\ UNCHANGED <<cfgVars, call>>
  \/ \E i \in TaskIndexes : AddNext(i) /\ UNCHANGED <<cfgVars, call>>
  \/ \E i \in TaskIndexes : SaveRead(i) /\ UNCHANGED <<cfgVars, call>>
  \/ \E i \in TaskIndexes : SaveAbort(i) /\ UNCHANGED <<cfgVars, call>>
  \/ \E i \in TaskIndexes : SaveFail(i) /\ UNCHANGED <<cfgVars, call>>
  \/ Return /\ UNCHANGED <<cfgVars, call>>
  \/ \E id \in CallerIds \cup Ids(knowledge_units) :
        KBUpdateUsageUnsaved(id) /\ UNCHANGED <<cfgVars, batchVars>>
  \/ \E d \in Domains :
        batch = "returned" /\ KBFind(d, <<>>, {}) /\ UNCHANGED <<cfgVars, batchVars>>

SpecUnwritable == Init /\ [][NextUnwritable]_vars

(***************************************************************************)
(* calculate_knowledge_consistency, one call at a time                    *)
(***************************************************************************)
\* The lists of new units a caller may hand in: what an extraction yields.
NewUnitLists == {ExtractKnowledgeUnits("t2", d, n) : d \in Domains, n \in 0..2}

KBConsistency(new_units, domain) ==
  /\ call' = [called |-> TRUE, op |-> "consistency", new_units |-> new_units,
              domain |-> domain,
              result |-> KnowledgeConsistency(Store, new_units, domain)]
  /\ kb_last' = NoOp
  /\ fresh' = NotLoaded
  /\ found' = NoCall
  /\ UNCHANGED <<knowledge_units, domain_index, tag_index, kb_file>>

(***************************************************************************)
(* KnowledgeBase.__init__ on a snapshot file that may be damaged           *)
(***************************************************************************)
\* a unit_data with no 'content'
EntryWithoutContent ==
  [id |-> "k9", domain |-> "general", source_task_id |-> "t1",
   creation_time |-> IsoFormat(12)]

\* The snapshot files a KnowledgeBase may be constructed on: none, an unreadable
\* one, one a store wrote, and files a store wrote in which one entry has lost
\* its content.
SavedUnits == ExtractKnowledgeUnits("t1", "general", 2)
SnapshotFiles ==
  {MissingFile, UnreadableFile, WrittenFile(SavedUnits),
   [exists |-> TRUE,
    knowledge_units |-> <<EntryWithoutContent>> \o Snapshot(SavedUnits)],
   [exists |-> TRUE,
    knowledge_units |-> Append(Snapshot(SavedUnits), EntryWithoutContent)]}

\* KnowledgeBase(kb_path) constructed on a given snapshot file
KBLoadFrom(file) ==
  /\ fresh' = [loaded |-> TRUE, store |-> LoadKnowledgeBase(file)]
  /\ call' = [called |-> TRUE, op |-> "load", file |-> file]
  /\ kb_last' = NoOp
  /\ found' = NoCall
  /\ UNCHANGED <<knowledge_units, domain_index, tag_index, kb_file>>

(***************************************************************************)
(* The EfficiencyEvaluator driven one call at a time                       *)
(***************************************************************************)
MaxTokens == 3
MaxErrors == 1

\* The arguments a caller may hand to start_task and add_token_usage.
CallerTaskIds == {"t1", "t2"}
TokenCounts == {1, 2}

EvalIdle == UNCHANGED <<task, results, logged, completed, batch, output, kb_initial>>

\* What the caller has done since its last start_task: the task id it gave, the
\* tokens and errors it has added since, and the metrics its last successful
\* end_task returned.
NoHistory ==
  [task_id |-> None, input |-> 0, output |-> 0, errors |-> 0, previous |-> NoMetrics]
Since == IF call.called THEN call.since ELSE NoHistory

\* start_task(task_id): no exception is raised in any state of the evaluator
EvStartTask(task_id) ==
  /\ evaluator' = StartTask(evaluator, task_id)
  /\ call' = [called |-> TRUE, op |-> "start_task", task_id |-> task_id,
              before |-> evaluator, raised |-> FALSE,
              since |-> [task_id |-> task_id, input |-> 0, output |-> 0, errors |-> 0,
                         previous |-> Since.previous]]
  /\ EvalIdle

\* add_token_usage(input_tokens, output_tokens): no exception is raised in any
\* state of the evaluator
EvAddTokenUsage(input_tokens, output_tokens) ==
  /\ evaluator.token_input + input_tokens <= MaxTokens
  /\ evaluator.token_output + output_tokens <= MaxTokens
  /\ evaluator' = AddTokenUsage(evaluator, input_tokens, output_tokens)
  /\ call' = [called |-> TRUE, op |-> "add_token_usage",
              input_tokens |-> input_tokens, output_tokens |-> output_tokens,
              before |-> evaluator, raised |-> FALSE,
              since |-> [Since EXCEPT !.input = @ + input_tokens,
                                      !.output = @ + output_tokens]]
  /\ EvalIdle

\* add_error(): no exception is raised in any state of the evaluator
EvAddError ==
  /\ evaluator.error_count < MaxErrors
  /\ evaluator' = AddError(evaluator)
  /\ call' = [called |-> TRUE, op |-> "add_error", before |-> evaluator,
              raised |-> FALSE, since |-> [Since EXCEPT !.errors = @ + 1]]
  /\ EvalIdle

\* end_task(): ValueError when no task is running, else the metrics and the reset
EvEndTask ==
  /\ IF evaluator.current_task_id = None
     THEN /\ call' = [called |-> TRUE, op |-> "end_task", before |-> evaluator,
                      raised |-> TRUE, since |-> Since]
          /\ UNCHANGED evaluator
     ELSE /\ call' = [called |-> TRUE, op |-> "end_task", before |-> evaluator,
                      raised |-> FALSE, result |-> MetricsOf(evaluator),
                      earlier |-> Since.previous,
                      since |-> [Since EXCEPT !.previous = MetricsOf(evaluator)]]
          /\ evaluator' = ResetTask(evaluator)
  /\ EvalIdle

(***************************************************************************)
(* EfficiencyEvaluator._calculate_automation_rate.  Times are whole numbers *)
(* of one unit (the elapsed time and the expert's time in the same unit),  *)
(* a rate is held in percent.                                              *)
(***************************************************************************)
MaxElapsed == 5

\* the expert_time_hours an evaluator may be constructed with or given, and the
\* elapsed times end_task may measure (the wall clock may have been set back)
ExpertTimes == {-2, 0, 1, 2, 4, 5}
ElapsedTimes == -1..MaxElapsed

\* a rate that is not limited to 0 .. 1
AutomationRateUnclamped(expert_time_hours, elapsed) ==
  IF expert_time_hours <= 0 THEN 100
  ELSE 100 - (elapsed * 100) \div expert_time_hours

\* _calculate_automation_rate: max(0.0, min(1.0, 1 - ai_time_hours / expert_time_hours)),
\* and 1.0 when expert_time_hours <= 0.  Every expert time above divides 100, so
\* the quotient is exact.
AutomationRate(expert_time_hours, elapsed) ==
  IF expert_time_hours <= 0 THEN 100
  ELSE Clamp(100 - (elapsed * 100) \div expert_time_hours)

\* what the call before this one was, when it was a rate computation too
EarlierRate ==
  IF call.called /\ call.op = "automation_rate"
  THEN [called |-> TRUE, expert_time_hours |-> call.expert_time_hours,
        elapsed |-> call.elapsed, result |-> call.result]
  ELSE NoCall

\* _calculate_automation_rate(completion_time_seconds) on an evaluator whose
\* expert_time_hours is the given one
EvAutomationRate(expert_time_hours, elapsed) ==
  /\ evaluator' = [evaluator EXCEPT !.expert_time_hours = expert_time_hours]
  /\ call' = [called |-> TRUE, op |-> "automation_rate",
              expert_time_hours |-> expert_time_hours, elapsed |-> elapsed,
              result |-> AutomationRate(expert_time_hours, elapsed),
              earlier |-> EarlierRate]
  /\ EvalIdle

NextRate ==
  \E expert_time_hours \in ExpertTimes, elapsed \in ElapsedTimes :
     EvAutomationRate(expert_time_hours, elapsed) /\ UNCHANGED <<cfgVars, kbVars>>

(***************************************************************************)
(* StrategicEvaluator: the sub-scores of one evaluation, for any response   *)
(***************************************************************************)
\* what a response may report under a key: a number below the scale, on it, above
\* it, or something float() rejects
ReportedValues == {Number(-10), Number(40), Number(100), NotANumber}

\* the answers of the text-generation service to an assessment prompt with these
\* keys: a failure, or an object reporting one value under some of the keys
Responses(keys) ==
  {ServiceError, NoPayload, InvalidPayload}
    \cup {Payload([k \in ks |-> v]) : ks \in SUBSET keys, v \in ReportedValues}

\* evaluate_strategic_value, step 1: the capability assessment
EvAssessCapability(response) ==
  /\ call' = [called |-> TRUE, op |-> "capability_assessment", capability |-> response,
              complex_task_scores |-> SubScores(response, CapabilityKeys)]
  /\ UNCHANGED evaluator
  /\ EvalIdle

\* evaluate_strategic_value, step 3 and the StrategicMetrics it returns: the knowledge
\* assessment, and the eight sub-scores copied into the metrics
EvAssessKnowledge(response) ==
  /\ call.called /\ call.op = "capability_assessment"
  /\ call' = [called |-> TRUE, op |-> "strategic_metrics",
              capability |-> call.capability, knowledge |-> response,
              metrics |-> call.complex_task_scores @@ SubScores(response, KnowledgeKeys)]
  /\ UNCHANGED evaluator
  /\ EvalIdle

NextAssess ==
  \/ \E response \in Responses(CapabilityKeys) :
        EvAssessCapability(response) /\ UNCHANGED <<cfgVars, kbVars>>
  \/ \E response \in Responses(KnowledgeKeys) :
        EvAssessKnowledge(response) /\ UNCHANGED <<cfgVars, kbVars>>

(***************************************************************************)
(* POETBenchmark: the three dimension scores under a user's sub-weights      *)
(***************************************************************************)
\* the sub-weights a user file may give for a key, in percent
UserSubWeightValues == {10, 30, 90}

\* a sub-weight object of a user configuration file: any subset of the keys
UserSubWeights(keys) == UNION {[ks -> UserSubWeightValues] : ks \in SUBSET keys}

\* race scores in tenths and citation accuracies in percent, as the result files of
\* the two external evaluations may hold them
RaceScores == {0, 25, 50, 70}
FactAccuracies == {0, 50, 100, 150}

\* metrics of EfficiencyEvaluator.end_task
EfficiencyMetrics ==
  {[task_id |-> "t1", start_time |-> 0, input_tokens |-> n, output_tokens |-> n,
    expert_time_hours |-> h, expert_hourly_rate_usd |-> DefaultExpertRate,
    error_count |-> 0] : n \in {0, 10000000}, h \in {0, DefaultExpertTime}}

\* calculate_quality_score under config["quality_value_weights"] as _load_config
\* left it
EvQualityScore(user, race_score, fact_accuracy) ==
  /\ call' = [called |-> TRUE, op |-> "calculate_quality_score",
              weights |-> DeepUpdate(QualityValueWeights, user),
              race_score |-> race_score, fact_accuracy |-> fact_accuracy,
              score |-> QualityScoreUnder(DeepUpdate(QualityValueWeights, user),
                                          race_score, fact_accuracy)]
  /\ UNCHANGED evaluator
  /\ EvalIdle

\* calculate_efficiency_score under config["efficiency_weights"]
EvEfficiencyScore(user, metrics) ==
  /\ call' = [called |-> TRUE, op |-> "calculate_efficiency_score",
              weights |-> DeepUpdate(EfficiencyWeights, user), metrics |-> metrics,
              score |-> EfficiencyScoreUnder(DeepUpdate(EfficiencyWeights, user), metrics)]
  /\ UNCHANGED evaluator
  /\ EvalIdle

\* calculate_strategic_score under config["strategic_weights"]
EvStrategicScore(user, i) ==
  /\ call' = [called |-> TRUE, op |-> "calculate_strategic_score",
              weights |-> DeepUpdate(StrategicWeights, user),
              metrics |-> StrategicScores(i),
              score |-> StrategicScoreUnder(DeepUpdate(StrategicWeights, user),
                                            StrategicScores(i))]
  /\ UNCHANGED evaluator
  /\ EvalIdle

NextScores ==
  \/ \E user \in UserSubWeights(DOMAIN QualityValueWeights),
        race_score \in RaceScores, fact_accuracy \in FactAccuracies :
        EvQualityScore(user, race_score, fact_accuracy) /\ UNCHANGED <<cfgVars, kbVars>>
  \/ \E user \in UserSubWeights(DOMAIN EfficiencyWeights), metrics \in EfficiencyMetrics :
        EvEfficiencyScore(user, metrics) /\ UNCHANGED <<cfgVars, kbVars>>
  \/ \E user \in UserSubWeights(DOMAIN StrategicWeights), i \in 1..4 :
        EvStrategicScore(user, i) /\ UNCHANGED <<cfgVars, kbVars>>

(***************************************************************************)
(* StrategicEvaluator.evaluate_strategic_value, one task after another       *)
(***************************************************************************)
\* index entries the store may hold: enough for six units of one domain
MaxEntries == 6

\* the task ids a caller may give, and the numbers of units an extraction may yield
EvaluatedTaskIds == {"t1", "t2", "t3"}
UnitCounts == {0, 2}

\* evaluate_strategic_value for a task whose extraction yields n units: the
\* consistency and the reused count are taken from the store, then the units are
\* added, each add followed by its save
EvaluateStrategicValue(task_id, domain, n) ==
  LET units == ExtractKnowledgeUnits(task_id, domain, n)
      kb == AddUnits(Store, units)
  IN /\ Adds + n <= MaxEntries
     /\ call' = [called |-> TRUE, op |-> "evaluate_strategic_value",
                 task_id |-> task_id, domain |-> domain,
                 created_knowledge_units |-> Len(units),
                 reused_knowledge_units |-> ReusedCount(Store, domain),
                 knowledge_consistency_score |->
                   KnowledgeConsistency(Store, units, domain)]
     /\ knowledge_units' = kb.units
     /\ domain_index' = kb.dindex
     /\ tag_index' = kb.tindex
     /\ kb_file' = IF units = <<>> THEN kb_file ELSE WrittenFile(kb.units)
     /\ kb_last' = NoOp
     /\ fresh' = NotLoaded
     /\ found' = NoCall

NextStrategic ==
  \E task_id \in EvaluatedTaskIds, domain \in Domains, n \in UnitCounts :
     EvaluateStrategicValue(task_id, domain, n) /\ UNCHANGED <<cfgVars, batchVars>>

(***************************************************************************)
(* Specifications                                                          *)
(***************************************************************************)
InitStore ==
  /\ knowledge_units = EmptyStore.units
  /\ domain_index = EmptyStore.dindex
  /\ tag_index = EmptyStore.tindex
  /\ kb_file = MissingFile
  /\ fresh = NotLoaded
  /\ found = NoCall
  /\ kb_last = NoOp

InitBatch ==
  /\ evaluator = NewEvaluator
  /\ task = <<>>
  /\ results = <<>>
  /\ logged = <<>>
  /\ completed = 0
  /\ batch = "absent"
  /\ output = NoOutput
  /\ kb_initial = {}

\* nothing constructed yet, the store empty and no batch entered
InitIdle == InitConfig /\ InitStore /\ InitBatch

\* construction and aggregation
NextAgg ==
  \/ \E readable \in BOOLEAN, user \in UserPoetWeights :
        Construct(readable, user) /\ UNCHANGED <<kbVars, batchVars, call>>
  \/ \E e \in DimensionScores, q \in DimensionScores, s \in DimensionScores :
        CalculatePoetScore(e, q, s) /\ UNCHANGED <<kbVars, batchVars, call>>

SpecAgg == InitIdle /\ [][NextAgg]_vars

\* the efficiency evaluator, one call at a time
NextEval ==
  \/ \E task_id \in CallerTaskIds : EvStartTask(task_id) /\ UNCHANGED <<cfgVars, kbVars>>
  \/ \E input_tokens \in TokenCounts, output_tokens \in TokenCounts :
        EvAddTokenUsage(input_tokens, output_tokens) /\ UNCHANGED <<cfgVars, kbVars>>
  \/ EvAddError /\ UNCHANGED <<cfgVars, kbVars>>
  \/ EvEndTask /\ UNCHANGED <<cfgVars, kbVars>>

SpecEval == InitIdle /\ [][NextEval]_vars

\* the automation rate, one computation at a time
SpecAssess == InitIdle /\ [][NextAssess]_vars
SpecScores == InitIdle /\ [][NextScores]_vars
SpecStrategic == InitIdle /\ [][NextStrategic]_vars
SpecRate == InitIdle /\ [][NextRate]_vars

\* the knowledge base, one call at a time
NextKB ==
  \/ \E unit \in CallerUnits : KBAdd(unit) /\ UNCHANGED <<cfgVars, batchVars>>
  \/ \E id \in CallerIds : KBUpdateUsage(id) /\ UNCHANGED <<cfgVars, batchVars>>
  \/ \E d \in Domains, tg \in QueryTags, kw \in QueryKeywords :
        KBFind(d, tg, kw) /\ UNCHANGED <<cfgVars, batchVars>>
  \/ KBReload /\ UNCHANGED <<cfgVars, batchVars>>

SpecKB == InitIdle /\ [][NextKB]_vars

\* the knowledge base as the StrategicEvaluator uses it, one call at a time: it is
\* constructed on a snapshot file, units are added and the consistency of new units
\* is computed
NextKBUse ==
  \/ \E unit \in CallerUnits : KBAddForUse(unit) /\ UNCHANGED <<cfgVars, batchVars>>
  \/ \E new_units \in NewUnitLists, d \in Domains :
        KBConsistency(new_units, d) /\ UNCHANGED <<cfgVars, batchVars>>
  \/ \E file \in SnapshotFiles : KBLoadFrom(file) /\ UNCHANGED <<cfgVars, batchVars>>

SpecKBUse == InitIdle /\ [][NextKBUse]_vars

(***************************************************************************)
(* Properties of construction and aggregation (SpecAgg)                    *)
(***************************************************************************)
\* C1: a benchmark whose merged top-level weights do not sum to 1 is never
\* constructed, and no score is ever computed under such weights.
C1_BadWeightsRejected ==
  /\ benchmark = "constructed" => WeightSum(config) = 100
  /\ poet.called => WeightSum(config) = 100

\* C2: every overall score is the weighted sum of its dimension scores under the
\* configured weights, lies in [0,1] for dimension scores in [0,1], is 0 when all
\* three are 0 and 1 when all three are 1.
C2_OverallScoreBounded ==
  poet.called =>
    /\ poet.poet_score = poet.efficiency_value * config["efficiency_value"]
                         + poet.quality_value * config["quality_value"]
                         + poet.strategic_value * config["strategic_value"]
    /\ poet.poet_score >= 0 /\ poet.poet_score <= 10000
    /\ (poet.efficiency_value = 0 /\ poet.quality_value = 0 /\ poet.strategic_value = 0)
          => poet.poet_score = 0
    /\ (poet.efficiency_value = 100 /\ poet.quality_value = 100
        /\ poet.strategic_value = 100) => poet.poet_score = 10000

(***************************************************************************)
(* Properties of the KnowledgeBase (SpecKB)                                *)
(***************************************************************************)
IndexMembers(index) == [k \in DOMAIN index |-> ListSet(index[k])]

\* C8: adding a unit whose id the store already holds leaves the number of units
\* and the membership of the domain index and of every tag index unchanged, and
\* the id occurs at most once in every index list.
C8_AddExistingIdOverwrites ==
  (kb_last.op = "add" /\ kb_last.id \in Ids(kb_last.before.units)) =>
    /\ Len(knowledge_units) = Len(kb_last.before.units)
    /\ IndexMembers(domain_index) = IndexMembers(kb_last.before.dindex)
    /\ IndexMembers(tag_index) = IndexMembers(kb_last.before.tindex)
    /\ \A d \in Domains : Count(domain_index[d], kb_last.id) <= 1
    /\ \A t \in Tags : Count(tag_index[t], kb_last.id) <= 1

\* C9: a store constructed from the snapshot the store wrote holds the same units
\* (every field equal) and the same domain-index and tag-index membership.
C9_SnapshotRoundTrip ==
  fresh.loaded =>
    /\ ListSet(fresh.store.units) = ListSet(knowledge_units)
    /\ Len(fresh.store.units) = Len(knowledge_units)
    /\ IndexMembers(fresh.store.dindex) = IndexMembers(domain_index)
    /\ IndexMembers(fresh.store.tindex) = IndexMembers(tag_index)

\* C10: find_relevant_knowledge returns the empty list whenever the store holds no
\* unit of the requested domain, with or without tags and keywords.
C10_NoDomainEntriesFindsNothing ==
  (found.called /\ \A i \in 1..Len(knowledge_units) :
                      knowledge_units[i].domain # found.domain)
    => found.result = <<>>

(***************************************************************************)
(* Properties of evaluate_batch (Spec)                                     *)
(***************************************************************************)
TaskIndexOf(task_id) == CHOOSE i \in TaskIndexes : TaskId(i) = task_id

Failed == {i \in TaskIndexes : task[i].pc = "raised"}

\* C3: once the batch has returned, a task whose evaluation raised has no result and
\* has left nothing in the result of any other task: no result's efficiency metrics
\* carry the id of a failed task.
C3_FailedTaskLeavesNoTrace ==
  batch = "returned" =>
    \A k \in 1..Len(results) :
      /\ TaskIndexOf(results[k].task_id) \notin Failed
      /\ \A i \in Failed : results[k].efficiency_metrics.task_id # TaskId(i)

\* C4: when every task record of the batch is well formed (none raises KeyError or
\* AttributeError on its own fields), the returned list holds exactly one result
\* per task, although the tasks outnumber the threads.
C4_OneResultPerTask ==
  (/\ batch = "returned"
   /\ NumTasks > MaxWorkers
   /\ \A i \in TaskIndexes : task[i].error \notin {"KeyError", "AttributeError"})
    => /\ Len(results) = NumTasks
       /\ \A i \in TaskIndexes :
             Cardinality({k \in 1..Len(results) : results[k].task_id = TaskId(i)}) = 1

\* C5: the efficiency metrics of every result carry the result's own task id, the
\* expert baseline of its own domain and exactly the tokens estimated for its
\* own prompt and article.
C5_MetricsAreTheTasksOwn ==
  \A k \in 1..Len(results) :
    LET m == results[k].efficiency_metrics
        i == TaskIndexOf(results[k].task_id)
    IN /\ m.task_id = results[k].task_id
       /\ m.expert_time_hours = DomainExpertTimes[results[k].domain]
       /\ m.expert_hourly_rate_usd = DomainExpertRates[results[k].domain]
       /\ m.input_tokens = EstimatedTokens(PromptWords(i))
       /\ m.output_tokens = EstimatedTokens(ArticleWords(i))

\* the threads that have mutated the store in add_knowledge_unit and have not yet
\* left its save_knowledge_base
InsideAdd == {i \in TaskIndexes : task[i].pc \in {"read", "write"}}

\* C7: at most one thread at a time is inside add_knowledge_unit, between its
\* in-memory mutation and the end of its snapshot write.
C7_StoreUpdatesSerialized == Cardinality(InsideAdd) <= 1

(***************************************************************************)
(* Properties of the store under a batch (SpecStore)                       *)
(***************************************************************************)
ExtractedIds(i) ==
  {task[i].knowledge_units[j].id : j \in 1..Len(task[i].knowledge_units)}

AddedIds ==
  UNION {{task[i].knowledge_units[j].id : j \in 1..task[i].added} : i \in TaskIndexes}

Succeeded == {i \in TaskIndexes : task[i].pc = "done"}

\* C6 as stated: after the batch the store holds as many units as it held at first
\* plus all the units the successfully evaluated tasks extracted.
C6_CountIsInitialPlusExtracted ==
  batch = "returned" =>
    Len(knowledge_units) = Cardinality(kb_initial) + ExtractedUpTo(NumTasks)

\* C6: no add is lost.  At every moment the store holds, one unit per id, exactly
\* the ids it held at first and the ids added so far; after the batch these are the
\* ids extracted by the successfully evaluated tasks, so the count is the initial
\* count plus the number of extracted ids the store did not hold already.
C6_NoAddLost ==
  /\ Ids(knowledge_units) = kb_initial \cup AddedIds
  /\ Len(knowledge_units) = Cardinality(kb_initial \cup AddedIds)
  /\ batch = "returned" =>
       /\ AddedIds = UNION {ExtractedIds(i) : i \in Succeeded}
       /\ \A i \in Failed : task[i].knowledge_units = <<>>

\* two threads inside add_knowledge_unit at once, the units of both in the store
C6_ConcurrentAdds ==
  \E i, j \in InsideAdd :
    /\ i # j
    /\ ExtractedIds(i) \cap ExtractedIds(j) = {}
    /\ \E a \in ExtractedIds(i), b \in ExtractedIds(j) :
          {a, b} \subseteq Ids(knowledge_units)

(***************************************************************************)
(* Properties of find_relevant_knowledge and update_knowledge_usage        *)
(* (SpecKB)                                                                *)
(***************************************************************************)
\* the ids of the stored units of the domain that carry one of the tags, when tags
\* are given, and hold one of the keywords, when keywords are given
Matching(units, domain, tags, keywords) ==
  {units[i].id : i \in {j \in 1..Len(units) :
      /\ units[j].domain = domain
      /\ tags # <<>> => ListSet(units[j].tags) \cap ListSet(tags) # {}
      /\ keywords # {} =>
           \E k \in keywords : Contains(Lower(units[j].content), Lower(k))}}

\* C11: find_relevant_knowledge returns exactly the stored units of the requested
\* domain that match the tags and keywords supplied, each once, in non-increasing
\* order of quality_score.
C11_FindReturnsExactlyTheMatches ==
  found.called =>
    /\ ListSet(found.result)
         = Matching(knowledge_units, found.domain, found.tags, found.keywords)
    /\ Cardinality(ListSet(found.result)) = Len(found.result)
    /\ \A i \in 1..(Len(found.result) - 1) :
         Unit(knowledge_units, found.result[i]).quality_score
           >= Unit(knowledge_units, found.result[i + 1]).quality_score

\* C12: update_knowledge_usage on a stored id raises that unit's usage_count by one
\* and leaves its other fields, every other unit, the order of the units and both
\* indexes as they were; on an id the store does not hold it leaves the units, the
\* indexes and the snapshot file as they were.
C12_UsageRaisesOneCountOnly ==
  kb_last.op = "usage" =>
    /\ domain_index = kb_last.before.dindex
    /\ tag_index = kb_last.before.tindex
    /\ Len(knowledge_units) = Len(kb_last.before.units)
    /\ \A i \in 1..Len(knowledge_units) :
         knowledge_units[i] =
           IF kb_last.before.units[i].id = kb_last.id
           THEN [kb_last.before.units[i] EXCEPT !.usage_count = @ + 1]
           ELSE kb_last.before.units[i]
    /\ kb_last.id \notin Ids(kb_last.before.units) => kb_file = kb_last.file

\* a usage update of one of two stored units
C12_UsageOfOneOfTwoUnits ==
  /\ kb_last.op = "usage"
  /\ kb_last.id \in Ids(kb_last.before.units)
  /\ Len(knowledge_units) = 2
  /\ Unit(knowledge_units, kb_last.id).usage_count = 1

(***************************************************************************)
(* Properties of calculate_knowledge_consistency (SpecKBUse)               *)
(***************************************************************************)
\* C13: the consistency score is 1.0 when there is no new unit and 1.0 when the
\* store holds no unit of the given domain.
C13_ConsistencyIsOneWithoutPriorKnowledge ==
  (call.called /\ call.op = "consistency") =>
    /\ call.new_units = <<>> => call.result = One
    /\ (\A i \in 1..Len(knowledge_units) : knowledge_units[i].domain # call.domain)
          => call.result = One

(***************************************************************************)
(* Properties of the EfficiencyEvaluator (SpecEval)                        *)
(***************************************************************************)
\* C14: start_task called while a task is running raises and leaves the running
\* task's id, start time, token counters and error counter as they were.
C14_StartWhileRunningFails ==
  (call.called /\ call.op = "start_task" /\ call.before.current_task_id # None) =>
    /\ call.raised
    /\ evaluator = call.before

\* C15: add_token_usage adds its arguments to the counters while a task is
\* running; called while no task is running it raises and changes no counter.
C15_AddUsageOnlyWhileRunning ==
  (call.called /\ call.op = "add_token_usage") =>
    IF call.before.current_task_id # None
    THEN /\ ~call.raised
         /\ evaluator.token_input = call.before.token_input + call.input_tokens
         /\ evaluator.token_output = call.before.token_output + call.output_tokens
    ELSE /\ call.raised
         /\ evaluator = call.before

(***************************************************************************)
(* Properties of the outcome of a batch (Spec)                             *)
(***************************************************************************)
\* every record of what evaluate_batch returned and of the two files it wrote
OutcomeRecords ==
  IF output.written
  THEN {output.returned[k] : k \in 1..Len(output.returned)}
       \cup {output.detailed[k] : k \in 1..Len(output.detailed)}
       \cup {output.summary[k] : k \in 1..Len(output.summary)}
  ELSE {}

\* the task ids of the records of the outcome that carry an error, and of those
\* that are composite results
RecordedFailureIds == {r.task_id : r \in {x \in OutcomeRecords : "error" \in DOMAIN x}}
CompositeResultIds ==
  IF output.written
  THEN {output.returned[k].task_id : k \in 1..Len(output.returned)}
  ELSE {}
SubmittedIds == {TaskId(i) : i \in TaskIndexes}

\* C18: after a batch run every task whose evaluation failed is recorded as a
\* failure in the batch's outcome: the ids of the composite results and the ids of
\* the recorded failures are disjoint and together are the ids of the submitted tasks.
C18_FailuresRecordedInOutcome ==
  batch = "returned" =>
    /\ CompositeResultIds \cap RecordedFailureIds = {}
    /\ CompositeResultIds \cup RecordedFailureIds = SubmittedIds

\* a list of records of the outcome in ascending order of task id, and in
\* descending or ascending order of overall score
SortedByTaskId(list) ==
  \A j, k \in 1..Len(list) :
    j < k => TaskIndexOf(list[j].task_id) < TaskIndexOf(list[k].task_id)
SortedByScore(list) ==
  \/ \A j, k \in 1..Len(list) :
        j < k => list[j].overall_poet_score >= list[k].overall_poet_score
  \/ \A j, k \in 1..Len(list) :
        j < k => list[j].overall_poet_score <= list[k].overall_poet_score

\* C19: the detail list and the summary list a batch produces do not depend on the
\* order in which the tasks completed: each is in the order of the task ids or in
\* the order of the scores.
C19_ListsInSortedOrder ==
  batch = "returned" =>
    /\ SortedByTaskId(output.detailed) \/ SortedByScore(output.detailed)
    /\ SortedByTaskId(output.summary) \/ SortedByScore(output.summary)

\* the tasks whose id is in neither quality table, their record being one
\* evaluate_single_task can read (it has an id and a text prompt)
WithoutQualityData ==
  {i \in TaskIndexes :
     /\ TaskId(i) \notin DOMAIN RaceResults \cup DOMAIN FactResults
     /\ task[i].error \notin {"KeyError", "AttributeError"}}

\* C20: a task whose id is absent from the quality tables is not excluded from the
\* batch: when the batch has returned it has a composite result with quality
\* inputs 0 and quality score 0, whose overall score is the weighted sum of its
\* efficiency and strategic scores.
C20_NoQualityDataStillScored ==
  batch = "returned" =>
    \A i \in WithoutQualityData :
      \E k \in 1..Len(output.returned) :
        LET r == output.returned[k]
        IN /\ r.task_id = TaskId(i)
           /\ r.race_score = 0
           /\ r.fact_citation_accuracy = 0
           /\ r.poet_value_breakdown.quality_value = 0
           /\ r.overall_poet_score =
                r.poet_value_breakdown.efficiency_value * config["efficiency_value"]
                  + r.poet_value_breakdown.strategic_value * config["strategic_value"]

(***************************************************************************)
(* Properties of loading a snapshot (SpecKBUse)                            *)
(***************************************************************************)
\* the file is missing, or json.load raises on it, or one of its entries makes the
\* construction of the unit raise
Corrupt(file) ==
  \/ ~file.exists
  \/ "knowledge_units" \notin DOMAIN file
  \/ \E i \in 1..Len(file.knowledge_units) : ~WellFormed(file.knowledge_units[i])

LoadedFrom(file) == call.called /\ call.op = "load" /\ call.file = file

\* C17: loading a knowledge store from a missing or corrupt snapshot falls back to
\* an empty store: no units, empty domain and tag indexes, also when the first
\* entries of the snapshot are well-formed and a later one is malformed.
C17_CorruptSnapshotLoadsEmpty ==
  \A file \in SnapshotFiles :
    LoadedFrom(file) /\ Corrupt(file) => fresh.store = EmptyStore

(***************************************************************************)
(* Properties of the assessments under a batch (SpecStore)                 *)
(***************************************************************************)
\* the response made the assessment fail: the service raised, or the text held no
\* {...}, or the {...} was not JSON
Unusable(response) == response.kind \in {"exception", "text", "invalid"}

\* what C16 asks of the four sub-scores an assessment gives for a response
NeutralWhereMissing(scores, response, keys) ==
  /\ Unusable(response) => \A k \in keys : scores[k] = DefaultScore
  /\ (response.kind = "json"
      /\ \A k \in DOMAIN response.object : response.object[k].numeric)
        => \A k \in keys :
             scores[k] = IF k \in DOMAIN response.object
                         THEN response.object[k].tenths ELSE DefaultScore

\* C16: a failing text-generation call of an assessment never aborts the task.  A
\* task that has made its two assessment calls has not raised; each assessment
\* whose call failed gives the neutral default 3.0 for its four sub-scores, a
\* sub-score missing from a parsed response alone is replaced by 3.0; and when the
\* batch has returned the task has a composite result holding these sub-scores.
C16_AssessmentFailureNeverAborts ==
  \A i \in TaskIndexes :
    /\ task[i].pc = "raised" => ~task[i].strategic_scores.assessed
    /\ task[i].strategic_scores.assessed =>
         /\ NeutralWhereMissing(task[i].strategic_scores.complex_task_scores,
                                CapabilityResponse(i), CapabilityKeys)
         /\ NeutralWhereMissing(task[i].strategic_scores.knowledge_scores,
                                KnowledgeResponse(i), KnowledgeKeys)
         /\ batch = "returned" =>
              \E k \in 1..Len(results) :
                 /\ results[k].task_id = TaskId(i)
                 /\ results[k].strategic_scores = task[i].strategic_scores

\* the batch has returned with a result, all eight sub-scores 3.0, for a task whose
\* two assessment calls failed, and a result for a task with one sub-score missing
C16_ResultWithNeutralScores ==
  /\ batch = "returned"
  /\ \E k \in 1..Len(results) :
        LET i == TaskIndexOf(results[k].task_id)
        IN /\ Unusable(CapabilityResponse(i)) /\ Unusable(KnowledgeResponse(i))
           /\ \A key \in CapabilityKeys :
                 results[k].strategic_scores.complex_task_scores[key] = DefaultScore
           /\ \A key \in KnowledgeKeys :
                 results[k].strategic_scores.knowledge_scores[key] = DefaultScore
  /\ \E k \in 1..Len(results) :
        LET i == TaskIndexOf(results[k].task_id)
        IN /\ CapabilityResponse(i).kind = "json"
           /\ DOMAIN CapabilityResponse(i).object # CapabilityKeys
           /\ results[k].strategic_scores.complex_task_scores["independence_score"]
                = DefaultScore
           /\ results[k].strategic_scores.complex_task_scores["domain_expertise_score"]
                = 50

(***************************************************************************)
(* Properties of the indexes and of the snapshot (SpecKB)                  *)
(***************************************************************************)
\* the ids the primary map holds with domain d, and with t among their tags
IdsOfDomain(units, d) == {units[i].id : i \in {j \in 1..Len(units) : units[j].domain = d}}
IdsOfTag(units, t) ==
  {units[i].id : i \in {j \in 1..Len(units) : t \in ListSet(units[j].tags)}}

\* the two indexes of a store agree with its primary map
IndexesAgree(kb) ==
  /\ \A d \in Domains : ListSet(kb.dindex[d]) = IdsOfDomain(kb.units, d)
  /\ \A t \in Tags : ListSet(kb.tindex[t]) = IdsOfTag(kb.units, t)

\* C21: in every state of a knowledge store reached by loads, adds (re-adding an
\* existing id with another domain or other tags included) and usage updates, an
\* id is in the domain index of d exactly when the primary map holds it with
\* domain d, and in the tag index of t exactly when the primary map holds it with
\* t among its tags.
C21_IndexesAgreeWithPrimaryMap ==
  /\ IndexesAgree(Store)
  /\ fresh.loaded => IndexesAgree(fresh.store)

(***************************************************************************)
(* Properties of the snapshot under a batch (SpecStore)                    *)
(***************************************************************************)
\* the ids and usage counts of a list of units or of unit_data records
UsageById(list) == {<<list[k].id, list[k].usage_count>> : k \in 1..Len(list)}

\* no thread is in add_knowledge_unit or about to enter it: none is between the
\* first statement of its first add and the end of its last save_knowledge_base
NoStoreOperationInProgress ==
  \A i \in DOMAIN task : task[i].pc \notin {"add", "read", "write"}

\* C22: write-through.  Whenever no store operation is in progress the persisted
\* snapshot holds exactly the units of the in-memory primary map with their
\* current usage counts.
C22_SnapshotIsThePrimaryMap ==
  (batch # "absent" /\ NoStoreOperationInProgress) =>
     UsageById(kb_file.knowledge_units) = UsageById(knowledge_units)

(***************************************************************************)
(* Properties of the store that cannot be saved (SpecUnwritable)           *)
(***************************************************************************)
\* the unit a task added is in the map and the indexes
InMemory(unit) ==
  /\ unit.id \in Ids(knowledge_units)
  /\ unit.id \in ListSet(domain_index[unit.domain])
  /\ \A t \in ListSet(unit.tags) : unit.id \in ListSet(tag_index[t])

\* C23: when the snapshot cannot be written, add and usage updates do not raise.
\* The file stays as it was; every unit a task has added is in the in-memory map and
\* in the indexes; no task that extracted units has raised, and when the batch has
\* returned it has a composite result counting the units it created; a usage update
\* raises the count in memory; find_relevant_knowledge returns the units the memory
\* holds for the domain.
C23_UnwritableSnapshotDegradesToMemory ==
  /\ kb_file \in InitialFiles
  /\ \A i \in DOMAIN task :
       /\ \A j \in 1..task[i].added : InMemory(task[i].knowledge_units[j])
       /\ task[i].knowledge_units # <<>> => task[i].pc # "raised"
       /\ (batch = "returned" /\ task[i].knowledge_units # <<>>) =>
            \E k \in 1..Len(results) :
               /\ results[k].task_id = TaskId(i)
               /\ results[k].created_knowledge_units = Len(task[i].knowledge_units)
  /\ (kb_last.op = "usage" /\ kb_last.id \in Ids(kb_last.before.units)) =>
        Unit(knowledge_units, kb_last.id).usage_count
          = Unit(kb_last.before.units, kb_last.id).usage_count + 1
  /\ found.called =>
        ListSet(found.result) = IdsOfDomain(knowledge_units, found.domain)

\* after a batch whose saves all failed, a unit that is not in the file has had its
\* usage counted and is returned by find_relevant_knowledge
C23_FoundUnitThatWasNeverSaved ==
  /\ batch = "returned"
  /\ Len(results) > 0
  /\ found.called
  /\ \E k \in 1..Len(found.result) :
        /\ found.result[k] \notin {kb_file.knowledge_units[j].id :
                                     j \in 1..Len(kb_file.knowledge_units)}
        /\ Unit(knowledge_units, found.result[k]).usage_count = 1

(***************************************************************************)
(* Properties of the EfficiencyEvaluator over a sequence of tasks          *)
(* (SpecEval)                                                              *)
(***************************************************************************)
\* C24: end_task returns the metrics and leaves the evaluator idle, so that it can
\* be started again; start_task resets the counters.  The metrics a successful
\* end_task returns carry the id given to the last start_task and count exactly the
\* tokens and errors added since that start_task, never those of an earlier task.
C24_MetricsCountSinceMatchingStart ==
  /\ (call.called /\ call.op = "start_task") =>
        /\ ~call.raised
        /\ evaluator.current_task_id = call.task_id
        /\ evaluator.token_input = 0 /\ evaluator.token_output = 0
        /\ evaluator.error_count = 0
  /\ (call.called /\ call.op = "end_task" /\ ~call.raised) =>
        /\ call.result.task_id = call.since.task_id
        /\ call.result.input_tokens = call.since.input
        /\ call.result.output_tokens = call.since.output
        /\ call.result.error_count = call.since.errors
        /\ evaluator.current_task_id = None
        /\ evaluator.start_time = None

\* a second task has finished after a first one that had used tokens and counted an
\* error: its metrics hold its own smaller counts
C24_SecondTaskCountsItsOwn ==
  /\ call.called /\ call.op = "end_task" /\ ~call.raised
  /\ call.earlier.task_id = "t1"
  /\ call.earlier.input_tokens = 2 /\ call.earlier.error_count = 1
  /\ call.result.task_id = "t2"
  /\ call.result.input_tokens = 1 /\ call.result.error_count = 0

(***************************************************************************)
(* Properties of the automation rate (SpecRate)                            *)
(***************************************************************************)
RateComputed == call.called /\ call.op = "automation_rate"

\* the rate is the clamped quotient for a positive expert time and 1.0 otherwise, it
\* is within 0 .. 1, and it does not increase when the elapsed time grows
RateAsSpecified ==
  RateComputed =>
    /\ call.result = IF call.expert_time_hours > 0
                     THEN Clamp(100 - (call.elapsed * 100) \div call.expert_time_hours)
                     ELSE 100
    /\ 0 <= call.result /\ call.result <= 100
    /\ (call.earlier.called /\ call.earlier.expert_time_hours = call.expert_time_hours
        /\ call.earlier.elapsed <= call.elapsed) => call.result <= call.earlier.result

\* C25 as stated: the rate is as specified, and it is 0 whenever the task took at
\* least the expert's time.
C25_RateZeroAtExpertTime ==
  /\ RateAsSpecified
  /\ (RateComputed /\ call.elapsed >= call.expert_time_hours) => call.result = 0

\* C25: the rate is as specified, and it is 0 whenever the expert's time is positive
\* and the task took at least that time.
C25_RateZeroAtPositiveExpertTime ==
  /\ RateAsSpecified
  /\ (RateComputed /\ call.expert_time_hours > 0
      /\ call.elapsed >= call.expert_time_hours) => call.result = 0

\* a rate of 1.0 for an expert time of zero although time has elapsed, computed
\* after a rate of 0 for a task that took longer than a positive expert time
C25_RateOneWithoutExpertTime ==
  /\ RateComputed
  /\ call.expert_time_hours = 0 /\ call.elapsed > 0 /\ call.result = 100
  /\ call.earlier.called
  /\ call.earlier.expert_time_hours > 0
  /\ call.earlier.elapsed > call.earlier.expert_time_hours
  /\ call.earlier.result = 0


(***************************************************************************)
(* Properties of the strategic sub-scores (SpecAssess)                      *)
(***************************************************************************)
\* C26: each of the eight sub-scores in the strategic metrics of a task is within
\* 0 .. 5, whatever numbers the response reports.
C26_SubScoresWithinScale ==
  (call.called /\ call.op = "strategic_metrics") =>
    /\ DOMAIN call.metrics = CapabilityKeys \cup KnowledgeKeys
    /\ \A k \in DOMAIN call.metrics : 0 <= call.metrics[k] /\ call.metrics[k] <= 50

(***************************************************************************)
(* Properties of the dimension scores (SpecScores)                          *)
(***************************************************************************)
\* C27: each dimension score is within 0 .. 1, for any metrics, any quality inputs
\* and any sub-weights the configuration holds.
C27_DimensionScoresWithinUnit ==
  (call.called /\ call.op \in {"calculate_quality_score", "calculate_efficiency_score",
                               "calculate_strategic_score"}) =>
    (0 <= call.score /\ call.score <= 100)

(***************************************************************************)
(* Properties of the consistency score (SpecKBUse)                          *)
(***************************************************************************)
\* the units of the store that have the domain
UnitsOfDomain(domain) ==
  {knowledge_units[i] : i \in {j \in 1..Len(knowledge_units) :
                                  knowledge_units[j].domain = domain}}

\* the mean over the new units of the greatest similarity to a unit of the set
MeanOfMaxima(new_units, compared) ==
  SumOfScores([i \in 1..Len(new_units) |-> MaxSimilarity(new_units[i], compared)])
    \div Len(new_units)

ConsistencyAgainstPriorKnowledge ==
  /\ call.called /\ call.op = "consistency"
  /\ call.new_units # <<>>
  /\ UnitsOfDomain(call.domain) # {}

\* C28: the consistency score of new units against a domain with prior knowledge is
\* the mean over the new units of the greatest word-set similarity to an existing
\* unit of that domain; it is within 0 .. 1, 1.0 when every new unit has the words of
\* one of those units, and 0 when no new unit shares a word with any of them.
C28_ConsistencyIsMeanOfMaxima ==
  ConsistencyAgainstPriorKnowledge =>
    LET compared == UnitsOfDomain(call.domain)
        new == {call.new_units[i] : i \in 1..Len(call.new_units)}
    IN /\ call.result = MeanOfMaxima(call.new_units, compared)
       /\ 0 <= call.result /\ call.result <= One
       /\ (\A n \in new : \E e \in compared : Words(n.content) = Words(e.content))
             => call.result = One
       /\ (\A n \in new : \A e \in compared : Words(n.content) \cap Words(e.content) = {})
             => call.result = 0

(***************************************************************************)
(* Properties of the reused count (SpecStrategic)                           *)
(***************************************************************************)
\* the smaller of the number of units of the domain in the store and 5
UnitsToReuse(domain) ==
  IF Cardinality(UnitsOfDomain(domain)) < 5 THEN Cardinality(UnitsOfDomain(domain)) ELSE 5

\* C29: the reused count reported for a task is the smaller of 5 and the number of
\* units of the task's domain the store holds when the task is evaluated, and so is
\* within 0 .. 5.
C29_ReusedCountIsUnitsOfDomainUpToFive ==
  [][\A task_id \in EvaluatedTaskIds, domain \in Domains, n \in UnitCounts :
       EvaluateStrategicValue(task_id, domain, n) =>
         /\ call'.reused_knowledge_units = UnitsToReuse(domain)
         /\ call'.reused_knowledge_units \in 0..5]_vars

(***************************************************************************)
(* Properties of the step order of a strategic evaluation (SpecStore)       *)
(***************************************************************************)
\* the ids of the units extracted for task i
OwnIds(i) == {task[i].knowledge_units[j].id : j \in 1..Len(task[i].knowledge_units)}

\* no earlier run left a unit of task i in the snapshot file the store was loaded from
FirstTime(i) == OwnIds(i) \cap kb_initial = {}

\* the composite results of task i
ResultsOf(i) == {k \in 1..Len(results) : results[k].task_id = TaskId(i)}

\* Until a task has consulted the store it has added nothing, and none of a
\* first-time task's units is in the store; a finished task has added every unit it
\* extracted and its result reports that number as created_knowledge_units.
UnitsAddedOnlyAfterConsulting ==
  \A i \in DOMAIN task :
    /\ task[i].pc \in {"queued", "consult"} =>
         /\ task[i].added = 0
         /\ FirstTime(i) => OwnIds(i) \cap Ids(knowledge_units) = {}
    /\ task[i].pc = "done" =>
         /\ task[i].added = Len(task[i].knowledge_units)
         /\ Cardinality(OwnIds(i)) = task[i].added
         /\ FirstTime(i) => OwnIds(i) \subseteq Ids(knowledge_units)
         /\ \A k \in ResultsOf(i) : results[k].created_knowledge_units = task[i].added

\* The step in which a first-time task consults the store computes the consistency
\* score and the reused count on a store that holds none of the task's units, and a
\* unit of a task enters the store only in the task's add steps.
ConsultedBeforeAdding ==
  \A i \in DOMAIN task :
    /\ (task[i].pc = "consult" /\ task'[i].pc # "consult" /\ FirstTime(i)) =>
         /\ OwnIds(i) \cap Ids(knowledge_units) = {}
         /\ task'[i].knowledge_consistency =
              KnowledgeConsistency(Store, task[i].knowledge_units, TaskDomain(i))
         /\ task'[i].reused_count = ReusedCount(Store, TaskDomain(i))
    /\ (FirstTime(i) /\ OwnIds(i) \cap Ids(knowledge_units') # OwnIds(i) \cap Ids(knowledge_units))
         => task[i].pc = "add"

\* C30: within a task's strategic evaluation the consistency score and the reused
\* count are computed on the store before any of the task's units is added, so the
\* units of a first-time task never count for the task itself; the units are added
\* afterwards and their number is the task's created_knowledge_units.
C30_ConsultThenAdd ==
  /\ []UnitsAddedOnlyAfterConsulting
  /\ [][ConsultedBeforeAdding]_vars

\* a first-time task that extracted a unit, found a unit of another task to reuse,
\* and has added its own
C30_FirstTimeTaskReusedAndAdded ==
  \E i \in DOMAIN task :
    /\ task[i].pc = "done" /\ FirstTime(i)
    /\ task[i].knowledge_units # <<>>
    /\ task[i].reused_count > 0
    /\ OwnIds(i) \subseteq Ids(knowledge_units)
    /\ \E k \in ResultsOf(i) :
          /\ results[k].created_knowledge_units = Len(task[i].knowledge_units)
          /\ results[k].reused_knowledge_units = task[i].reused_count
=============================================================================
